---------------------------- MODULE Spec2Model ----------------------------
(* Model of github-subfinder (src/github-subfinder.py): the TokenPool,    *)
(* the search and fetch response classification, and the query/page loop  *)
(* of main() with its per-page fetch executor.  Spec is a whole run of   *)
(* main(), SpecFair the same with progress, SpecPool the TokenPool under  *)
(* any calls, SpecFan the executor with the fetches counted, SpecPure the *)
(* pure functions on any argument.                                        *)
(*                                                                        *)
(* Time is the wall clock read by time.time(), in whole seconds.  Token   *)
(* indices are 0-based as in the source; the token list is a function on  *)
(* 0..n-1.  Strings that the program transforms (matched domains) are     *)
(* sequences of one-character strings.                                    *)
EXTENDS Integers, Sequences, FiniteSets, TLC

\* ------------------------------------------------------------------ helpers
Range(s) == { s[i] : i \in 1..Len(s) }

SeqsUpTo(S, n) == UNION { [1..k -> S] : k \in 0..n }

\* ------------------------------------------------------------------ bounds
MaxTime == 61
MaxPoolTokens == 3
NumQueries == 2
MaxItems == 2
MaxMatches == 2
MaxRateLimits == 1
MaxDomainLen == 4
MaxBatch == 32

\* ------------------------------------------------------- program constants
SEARCH_MAX_PAGES == 10
MAX_FETCH_WORKERS == 30
RATE_LIMIT_COOLDOWN == 61
NO_TOKEN_WAIT == 3
RATE_LIMIT_PAUSE == 1

\* ------------------------------------------------------------ input domains
TokenOrder == <<"tA", "tB", "tC", "tD", "tE">>
TokenValues == Range(TokenOrder)
Unknown == "tX"
None == "None"
URLs == {"u1", "u2"}
NoUrl == ""
TickSteps == {RATE_LIMIT_COOLDOWN - 1}
\* Token lists of a run: one token, two tokens, the same token given twice.
RunTokenLists == { <<"tA">>, <<"tA", "tB">>, <<"tA", "tA">> }
PoolTickSteps == {RATE_LIMIT_COOLDOWN \div 2, RATE_LIMIT_COOLDOWN \div 2 + 1}
DomainChars == {"a", "B", ".", " "}
UserDomains == SeqsUpTo(DomainChars, MaxDomainLen)
RawMatches ==
  { <<"B", ".", "c">>,
    <<"b", ".", "c", ".">>,
    <<".", "a", ".", "b", ".", "c">> }

VARIABLES
  tokens,             \* pool.tokens: [0..n-1 -> [value, disabled_until]]
  idx,                \* pool.idx
  now,                \* time.time()
  stop_when_no_token, \* args.stop_when_no_token
  qi,                 \* position of q in searches (1-based)
  page,               \* page
  pc,                 \* position of main()
  tok,                \* tok
  err,                \* err.get("error") of the last search ("" for None)
  futures,            \* futures: fetch_code(url, tok) calls of the page
  seen_urls,          \* seen_urls
  found_domains,      \* found_domains
  reported,           \* domain -> number of log(dom, "found") calls
  exiting,            \* "no available token, exiting" has been logged
  submitted,          \* url -> number of ex.submit(fetch_code, url, ..) calls
  lastRL,             \* the last rate-limited search, until the next search
  rlCount,            \* rate-limited responses the service has given
  fetchRL,            \* urls whose fetch ended with the ratelimit error
  output,             \* lines written to out_file
  exit_code,          \* exit status of the process, -1 while it runs
  ret,                \* result of the pool call of the last step
  cooling,            \* value -> end of the cooldown set by disable(value)
  acq,                \* entries returned by consecutive get() calls
  lastGet,            \* what the most recent get() call returned
  call,               \* a call of a pure function: name, argument, result
  batch               \* the fetches of one page, counted by state

vars == << tokens, idx, now, stop_when_no_token, qi, page, pc, tok, err,
           futures, seen_urls, found_domains, reported, exiting, submitted,
           lastRL, rlCount, fetchRL, output, exit_code, ret, cooling, acq,
           lastGet, call, batch >>

mainVars == << stop_when_no_token, qi, page, pc, tok, err, futures,
               seen_urls, found_domains, reported, exiting, submitted,
               lastRL, rlCount, fetchRL, output, exit_code >>

poolObs == << ret, cooling, acq, lastGet, call, batch >>

NTokens(toks) == Cardinality(DOMAIN toks)

\* --------------------------------------------------------------- TokenPool
\* TokenPool.__init__: one entry per token given, in any order (shuffle),
\* duplicates kept, every entry available, idx 0.
TokenPoolInit(vals) == [ i \in 0..(Len(vals) - 1) |->
                           [value |-> vals[i + 1], disabled_until |-> 0] ]

\* TokenPool._available_indices: ascending list of indices whose entry is
\* not in cooldown at time t.
AvailableIndicesNoTimeCheck(toks, t) ==
  [ i \in 1..NTokens(toks) |-> i - 1 ]

AvailableIndices(toks, t) ==
  SelectSeq([ i \in 1..NTokens(toks) |-> i - 1 ],
            LAMBDA i : toks[i].disabled_until <= t)

\* avail.index(x): 1-based position of x in the list avail.
IndexOf(avail, x) == CHOOSE k \in 1..Len(avail) : avail[k] = x

\* TokenPool.get: [value, entry, idx] - the value returned (None when no
\* entry is available), the index of the entry returned and the new idx.
GetNoAdvance(toks, i, t) ==
  LET avail == AvailableIndices(toks, t) IN
  IF Len(avail) = 0
    THEN [value |-> None, entry |-> -1, idx |-> i]
    ELSE LET cur == IF i \in Range(avail) THEN i ELSE avail[1]
         IN [value |-> toks[cur].value, entry |-> cur, idx |-> cur]

Get(toks, i, t) ==
  LET avail == AvailableIndices(toks, t) IN
  IF Len(avail) = 0
    THEN [value |-> None, entry |-> -1, idx |-> i]
    ELSE LET cur == IF i \in Range(avail) THEN i ELSE avail[1]
             nxt == IndexOf(avail, cur) + 1
             wrapped == IF nxt > Len(avail) THEN 1 ELSE nxt
         IN [value |-> toks[cur].value, entry |-> cur, idx |-> avail[wrapped]]

\* TokenPool.disable: the first entry whose value is v gets
\* disabled_until = t + cooldown; nothing changes when there is none.
DisableNothing(toks, v, t, cooldown) == toks

DisableEvery(toks, v, t, cooldown) ==
  [ i \in DOMAIN toks |-> [toks[i] EXCEPT !.disabled_until = t + cooldown] ]

Disable(toks, v, t, cooldown) ==
  IF \E i \in DOMAIN toks : toks[i].value = v
    THEN LET first == CHOOSE i \in DOMAIN toks :
                        /\ toks[i].value = v
                        /\ \A j \in DOMAIN toks : toks[j].value = v => i <= j
         IN [toks EXCEPT ![first].disabled_until = t + cooldown]
    ELSE toks

\* TokenPool.any_available
AnyAvailable(toks, t) == \E i \in DOMAIN toks : toks[i].disabled_until <= t

\* The token lists main() can build (lines 233-241), up to renaming of the
\* tokens: 1..n tokens in any order, a token possibly given more than once
\* (only read_tokens_from_file drops duplicates).
TokenLists(n) ==
  { vals \in SeqsUpTo(TokenValues, n) \ { <<>> } :
      \A k \in 1..Len(vals) :
        \E j \in 1..Len(TokenOrder) :
          /\ vals[k] = TokenOrder[j]
          /\ j <= 1 + Cardinality({ vals[l] : l \in 1..(k - 1) }) }

\* ------------------------------------------------------ domain normalising
\* str.lower() on the characters the model uses.
LowerChar(c) == CASE c = "A" -> "a" [] c = "B" -> "b" [] c = "C" -> "c"
                  [] OTHER -> c

Lower(s) == [ i \in 1..Len(s) |-> LowerChar(s[i]) ]

\* str.strip("."): drop every leading and every trailing dot.
RECURSIVE StripLeadingDots(_)
StripLeadingDots(s) ==
  IF Len(s) > 0 /\ s[1] = "." THEN StripLeadingDots(Tail(s)) ELSE s

RECURSIVE StripTrailingDots(_)
StripTrailingDots(s) ==
  IF Len(s) > 0 /\ s[Len(s)] = "."
    THEN StripTrailingDots(SubSeq(s, 1, Len(s) - 1)) ELSE s

StripDots(s) == StripTrailingDots(StripLeadingDots(s))

\* dom = m.group(0).lower().strip(".")
NormalizeNoLower(m) == StripDots(m)

Normalize(m) == StripDots(Lower(m))

Domains == { Normalize(m) : m \in RawMatches } \ { <<>> }

\* ------------------------------------------------------------ split_domain
\* str.strip(): drop leading and trailing white space.
RECURSIVE StripLeadingSpaces(_)
StripLeadingSpaces(s) ==
  IF Len(s) > 0 /\ s[1] = " " THEN StripLeadingSpaces(Tail(s)) ELSE s

RECURSIVE StripTrailingSpaces(_)
StripTrailingSpaces(s) ==
  IF Len(s) > 0 /\ s[Len(s)] = " "
    THEN StripTrailingSpaces(SubSeq(s, 1, Len(s) - 1)) ELSE s

StripSpaces(s) == StripTrailingSpaces(StripLeadingSpaces(s))

\* host = user_domain.strip().lower().strip(".")
HostOf(user_domain) == StripDots(Lower(StripSpaces(user_domain)))

\* host.split("."): the pieces between the dots, one piece (host itself)
\* when there is no dot.
RECURSIVE SplitOnDots(_)
SplitOnDots(s) ==
  IF \A i \in 1..Len(s) : s[i] # "." THEN << s >>
  ELSE LET k == CHOOSE i \in 1..Len(s) :
                  s[i] = "." /\ \A j \in 1..(i - 1) : s[j] # "."
       IN << SubSeq(s, 1, k - 1) >> \o SplitOnDots(SubSeq(s, k + 1, Len(s)))

\* ".".join(labels)
RECURSIVE JoinWithDots(_)
JoinWithDots(labels) ==
  IF Len(labels) = 0 THEN <<>>
  ELSE IF Len(labels) = 1 THEN labels[1]
  ELSE labels[1] \o <<".">> \o JoinWithDots(Tail(labels))

\* split_domain: (sub, registrable, tld).
split_domain_tld_only(user_domain) ==
  LET host == HostOf(user_domain)
      labels == SplitOnDots(host)
      n == Len(labels)
  IN IF n < 2
       THEN [sub |-> <<>>, registrable |-> <<>>, tld |-> host]
       ELSE [sub |-> JoinWithDots(SubSeq(labels, 1, n - 2)),
             registrable |-> labels[n - 1], tld |-> labels[n]]

split_domain(user_domain) ==
  LET host == HostOf(user_domain)
      labels == SplitOnDots(host)
      n == Len(labels)
  IN IF n < 2
       THEN [sub |-> <<>>, registrable |-> host, tld |-> <<>>]
       ELSE [sub |-> JoinWithDots(SubSeq(labels, 1, n - 2)),
             registrable |-> labels[n - 1], tld |-> labels[n]]

\* ------------------------------------------------------------------ sorted()
\* ord(c) of the characters the model uses.
Ord(c) == CASE c = " " -> 32 [] c = "." -> 46
            [] c = "A" -> 65 [] c = "B" -> 66 [] c = "C" -> 67
            [] c = "a" -> 97 [] c = "b" -> 98 [] c = "c" -> 99

\* str < str: by code point at the first difference, a proper prefix first.
RECURSIVE StrLess(_, _)
StrLess(a, b) ==
  IF b = <<>> THEN FALSE
  ELSE IF a = <<>> THEN TRUE
  ELSE IF Head(a) # Head(b) THEN Ord(Head(a)) < Ord(Head(b))
  ELSE StrLess(Tail(a), Tail(b))

\* sorted(found_domains): the strings of the set in ascending order.
RECURSIVE SortedDescending(_)
SortedDescending(S) ==
  IF S = {} THEN <<>>
  ELSE LET hi == CHOOSE x \in S : \A y \in S \ {x} : StrLess(y, x)
       IN <<hi>> \o SortedDescending(S \ {hi})

RECURSIVE Sorted(_)
Sorted(S) ==
  IF S = {} THEN <<>>
  ELSE LET lo == CHOOSE x \in S : \A y \in S \ {x} : StrLess(x, y)
       IN <<lo>> \o Sorted(S \ {lo})

\* --------------------------------------------------------- response classes
\* What gh_request can hand back: no response at all (status None), or a
\* status, the X-RateLimit-Remaining header and a body.
Statuses == {200, 403, 404, 500}
Remainings == {"0", "absent"}
\* The items of a result page: each with an html_url or without one, at
\* least one with.
ItemLists == { its \in SeqsUpTo(URLs \cup {NoUrl}, MaxItems) :
                 \E k \in 1..Len(its) : its[k] \in URLs }
SearchBodies ==
  { [kind |-> k, items |-> <<>>] :
      k \in {"garbage", "nonobject", "noitems", "baditems"} }
  \cup { [kind |-> "items", items |-> its] : its \in ItemLists }
\* The body varies where it is read: in a 200 response with quota left.
SearchResponses ==
  { [present |-> FALSE, status |-> 0, remaining |-> "absent",
     body |-> [kind |-> "garbage", items |-> <<>>]] }
  \cup [present : {TRUE}, status : Statuses, remaining : Remainings,
        body : {[kind |-> "garbage", items |-> <<>>]}]
  \cup [present : {TRUE}, status : {200}, remaining : {"absent"},
        body : SearchBodies]
Texts == SeqsUpTo(RawMatches, MaxMatches)
FetchResponses ==
  { [present |-> FALSE, status |-> 0, remaining |-> "absent", text |-> <<>>] }
  \cup [present : {TRUE}, status : Statuses, remaining : Remainings,
        text : {<<>>}]
  \cup [present : {TRUE}, status : {200}, remaining : {"absent"},
        text : Texts]

\* Every response gh_request can hand back, field by field.
AllSearchResponses ==
  { [present |-> FALSE, status |-> 0, remaining |-> "absent",
     body |-> [kind |-> "garbage", items |-> <<>>]] }
  \cup [present : {TRUE}, status : Statuses, remaining : Remainings,
        body : SearchBodies]
AllFetchResponses ==
  { [present |-> FALSE, status |-> 0, remaining |-> "absent", text |-> <<>>] }
  \cup [present : {TRUE}, status : Statuses, remaining : Remainings,
        text : Texts]

\* github_search: [err, data]; err "" stands for None and "http" for
\* "http_<status>".  json.loads fails on a "garbage" body only.
NoData == [kind |-> "none", items |-> <<>>]

github_search_status_first(resp) ==
  IF ~resp.present THEN [err |-> "network", data |-> NoData]
  ELSE IF resp.status # 200 THEN [err |-> "http", data |-> NoData]
  ELSE IF resp.remaining = "0" THEN [err |-> "ratelimit", data |-> NoData]
  ELSE IF resp.body.kind = "garbage" THEN [err |-> "json", data |-> NoData]
  ELSE [err |-> "", data |-> resp.body]

github_search(resp) ==
  IF ~resp.present THEN [err |-> "network", data |-> NoData]
  ELSE IF resp.status = 403 \/ resp.remaining = "0"
    THEN [err |-> "ratelimit", data |-> NoData]
  ELSE IF resp.status # 200 THEN [err |-> "http", data |-> NoData]
  ELSE IF resp.body.kind = "garbage" THEN [err |-> "json", data |-> NoData]
  ELSE [err |-> "", data |-> resp.body]

\* fetch_code: [err, text].
fetch_code_ratelimit_first(resp) ==
  IF ~resp.present THEN [err |-> "network", text |-> <<>>]
  ELSE IF resp.status = 403 \/ resp.remaining = "0"
    THEN [err |-> "ratelimit", text |-> <<>>]
  ELSE IF resp.status >= 500 THEN [err |-> "network", text |-> <<>>]
  ELSE IF resp.status # 200 THEN [err |-> "http", text |-> <<>>]
  ELSE [err |-> "", text |-> resp.text]

fetch_code(resp) ==
  IF ~resp.present \/ resp.status >= 500
    THEN [err |-> "network", text |-> <<>>]
  ELSE IF resp.status = 403 \/ resp.remaining = "0"
    THEN [err |-> "ratelimit", text |-> <<>>]
  ELSE IF resp.status # 200 THEN [err |-> "http", text |-> <<>>]
  ELSE [err |-> "", text |-> resp.text]

\* ------------------------------------------------------------------- main()
NoCall == [op |-> "none", value |-> None, entry |-> -1]

NoRL == [q |-> 0, page |-> 0, tok |-> None, until |-> 0]

\* The submit loop of one page (lines 291-296), item by item: an item
\* without html_url or with one already in seen_urls is skipped, any other
\* is added to seen_urls and submitted.  [seen, urls]: seen_urls after the
\* loop and the urls submitted, in order.
RECURSIVE SubmitLoopNoSeenCheck(_, _, _)
SubmitLoopNoSeenCheck(items, seen, urls) ==
  IF items = <<>> THEN [seen |-> seen, urls |-> urls]
  ELSE LET html_url == Head(items) IN
       IF html_url = NoUrl
         THEN SubmitLoopNoSeenCheck(Tail(items), seen, urls)
         ELSE SubmitLoopNoSeenCheck(Tail(items), seen \cup {html_url},
                                    Append(urls, html_url))

RECURSIVE SubmitLoop(_, _, _)
SubmitLoop(items, seen, urls) ==
  IF items = <<>> THEN [seen |-> seen, urls |-> urls]
  ELSE LET html_url == Head(items) IN
       IF html_url = NoUrl \/ html_url \in seen
         THEN SubmitLoop(Tail(items), seen, urls)
         ELSE SubmitLoop(Tail(items), seen \cup {html_url},
                         Append(urls, html_url))

CountIn(urls, u) == Cardinality({ k \in 1..Len(urls) : urls[k] = u })

\* log(dom, "found", raw): one more line printed for dom.
Logged(rep, dom) == IF dom \in DOMAIN rep THEN [rep EXCEPT ![dom] = @ + 1]
                    ELSE rep @@ (dom :> 1)

\* The match loop of one fetched text (lines 306-310), match by match:
\* [found, rep]: found_domains and the log(dom, "found") counts after it.
RECURSIVE ScanText(_, _, _)
ScanText(text, found, rep) ==
  IF text = <<>> THEN [found |-> found, rep |-> rep]
  ELSE LET dom == Normalize(Head(text)) IN
       IF dom # <<>> /\ dom \notin found
         THEN ScanText(Tail(text), found \cup {dom},
                       Logged(rep, dom))
         ELSE ScanText(Tail(text), found, rep)

\* A break that ended the whole for loop.
NextQueryAbort ==
  /\ qi' = NumQueries + 1
  /\ page' = page
  /\ pc' = "write"

\* Leaving the page loop of the current query (break, or page beyond
\* SEARCH_MAX_PAGES): the for loop takes the next query with page = 1, or
\* ends and main() goes on to write the output.
NextQuery ==
  /\ qi' = qi + 1
  /\ IF qi + 1 <= NumQueries
       THEN page' = 1 /\ pc' = "loop"
       ELSE page' = page /\ pc' = "write"

\* The exit status of each way main() ends: return from main() (0),
\* sys.exit(0) after --version, sys.exit(2) with no token, sys.exit(4)
\* when the output cannot be written, and 1 for an uncaught exception.
ExitCode(status) ==
  CASE status = "done" -> 0
    [] status = "version" -> 0
    [] status = "notoken" -> 2
    [] status = "exit4" -> 4
    [] status = "crashed" -> 1

\* The process ends: the pool and the variables of the loop are gone.
ProcessEnds(status) ==
  /\ pc' = status
  /\ exit_code' = ExitCode(status)
  /\ tokens' = <<>>
  /\ idx' = 0
  /\ qi' = 0
  /\ page' = 0
  /\ tok' = None
  /\ err' = ""
  /\ futures' = <<>>

NoBatch == [q |-> 0, page |-> 0, queued |-> 0, running |-> 0, handled |-> 0]

NoPureCall == [fn |-> "none", arg |-> <<>>, result |-> <<>>]

NoGet == [value |-> None, entry |-> -1]

\* main() is entered: nothing parsed yet.
Init ==
  /\ tokens = <<>>
  /\ idx = 0
  /\ now = 0
  /\ stop_when_no_token = FALSE
  /\ qi = 1
  /\ page = 1
  /\ pc = "start"
  /\ tok = None
  /\ output = <<>>
  /\ exit_code = -1
  /\ lastGet = NoGet
  /\ call = NoPureCall
  /\ batch = NoBatch
  /\ futures = <<>>
  /\ seen_urls = {}
  /\ found_domains = {}
  /\ reported = <<>>
  /\ exiting = FALSE
  /\ submitted = [ u \in URLs |-> 0 ]
  /\ lastRL = NoRL
  /\ rlCount = 0
  /\ err = ""
  /\ fetchRL = {}
  /\ ret = NoCall
  /\ cooling = [ v \in TokenValues |-> 0 ]
  /\ acq = <<>>

\* Lines 229-249: --version prints and exits 0; the tokens come from -t,
\* GITHUB_TOKEN or .tokens and with none left the process exits 2;
\* otherwise the pool is built and the query loop starts.
Startup ==
  /\ pc = "start"
  /\ \E version \in BOOLEAN, vals \in RunTokenLists \cup { <<>> },
        k \in BOOLEAN :
       IF version THEN
         /\ ProcessEnds("version")
         /\ UNCHANGED stop_when_no_token
       ELSE IF vals = <<>> THEN
         /\ ProcessEnds("notoken")
         /\ UNCHANGED stop_when_no_token
       ELSE
         /\ tokens' = TokenPoolInit(vals)
         /\ stop_when_no_token' = k
         /\ pc' = "loop"
         /\ UNCHANGED << idx, qi, page, tok, err, futures, exit_code >>
  /\ UNCHANGED << now, seen_urls, found_domains, reported, exiting,
                  submitted, lastRL, rlCount, fetchRL, output, poolObs >>

\* The clock advances while the page loop runs.  The program reads the
\* clock only to compare it with disabled_until, so a step of the clock is
\* taken when some entry is in cooldown.
Tick ==
  /\ pc \in {"loop", "search", "await"}
  /\ \E i \in DOMAIN tokens : tokens[i].disabled_until > now
  /\ \E d \in TickSteps : now + d <= MaxTime /\ now' = now + d
  /\ UNCHANGED << tokens, idx, mainVars, poolObs >>

\* while page <= SEARCH_MAX_PAGES is false: the page loop ends.
PageLimit ==
  /\ pc = "loop"
  /\ page > SEARCH_MAX_PAGES
  /\ NextQuery
  /\ UNCHANGED << tokens, idx, now, stop_when_no_token, tok, futures,
                  seen_urls, found_domains, reported, exiting, submitted,
                  lastRL, rlCount, err, fetchRL,
                  output, exit_code, poolObs >>

\* tok = pool.get() returns a token: github_search(q, page, tok) sends the
\* search request.
AcquireToken ==
  /\ pc = "loop"
  /\ page <= SEARCH_MAX_PAGES
  /\ LET g == Get(tokens, idx, now) IN
       /\ g.value # None
       /\ idx' = g.idx
       /\ tok' = g.value
  /\ pc' = "search"
  /\ lastRL' = NoRL
  /\ UNCHANGED << tokens, now, stop_when_no_token, qi, page, futures,
                  seen_urls, found_domains, reported, exiting, submitted,
                  rlCount, err, fetchRL,
                  output, exit_code, poolObs >>

\* tok is None and args.stop_when_no_token: log "exiting" and break.
ExhaustedStop ==
  /\ pc = "loop"
  /\ page <= SEARCH_MAX_PAGES
  /\ Get(tokens, idx, now).value = None
  /\ stop_when_no_token
  /\ exiting' = TRUE
  /\ tok' = None
  /\ NextQuery
  /\ UNCHANGED << tokens, idx, now, stop_when_no_token, futures, seen_urls,
                  found_domains, reported, submitted, lastRL, rlCount, err,
                  fetchRL,
                  output, exit_code, poolObs >>

\* tok is None otherwise: log "waiting", time.sleep(3), continue.
ExhaustedWait ==
  /\ pc = "loop"
  /\ page <= SEARCH_MAX_PAGES
  /\ Get(tokens, idx, now).value = None
  /\ ~stop_when_no_token
  /\ now' = now + NO_TOKEN_WAIT
  /\ tok' = None
  /\ UNCHANGED << tokens, idx, stop_when_no_token, qi, page, pc, futures,
                  seen_urls, found_domains, reported, exiting, submitted,
                  lastRL, rlCount, err, fetchRL,
                  output, exit_code, poolObs >>

\* github_search returns the ratelimit error: pool.disable(tok), sleep(1),
\* continue (same q, same page).
SearchRateLimited ==
  /\ pc = "search"
  /\ \E resp \in SearchResponses : github_search(resp).err = "ratelimit"
  /\ now + RATE_LIMIT_PAUSE <= MaxTime
  /\ rlCount < MaxRateLimits
  /\ rlCount' = rlCount + 1
  /\ tokens' = Disable(tokens, tok, now, RATE_LIMIT_COOLDOWN)
  /\ now' = now + RATE_LIMIT_PAUSE
  /\ pc' = "loop"
  /\ lastRL' = [q |-> qi, page |-> page, tok |-> tok,
                until |-> now + RATE_LIMIT_COOLDOWN]
  /\ err' = "ratelimit"
  /\ UNCHANGED << idx, stop_when_no_token, qi, page, tok, futures,
                  seen_urls, found_domains, reported, exiting, submitted,
                  fetchRL,
                  output, exit_code, poolObs >>

\* github_search returns any other error: log, sleep(0.5), break.
SearchError ==
  /\ pc = "search"
  /\ \E resp \in SearchResponses :
       LET r == github_search(resp) IN
         r.err \in {"network", "http", "json"} /\ err' = r.err
  /\ NextQuery
  /\ UNCHANGED << tokens, idx, now, stop_when_no_token, tok, futures,
                  seen_urls, found_domains, reported, exiting, submitted,
                  lastRL, rlCount, fetchRL,
                  output, exit_code, poolObs >>

\* github_search returns data that is an object without items (or with an
\* empty items array): break.
SearchNoItems ==
  /\ pc = "search"
  /\ \E resp \in SearchResponses :
       LET r == github_search(resp) IN
         r.err = "" /\ r.data.kind = "noitems"
  /\ NextQuery
  /\ err' = ""
  /\ UNCHANGED << tokens, idx, now, stop_when_no_token, tok, futures,
                  seen_urls, found_domains, reported, exiting, submitted,
                  lastRL, rlCount, fetchRL,
                  output, exit_code, poolObs >>

\* github_search returns data that is no object (data.get raises
\* AttributeError) or whose items is no array (the item loop raises): the
\* exception is caught nowhere and ends the process.
SearchBadData ==
  /\ pc = "search"
  /\ \E resp \in SearchResponses :
       LET r == github_search(resp) IN
         r.err = "" /\ r.data.kind \in {"nonobject", "baditems"}
  /\ ProcessEnds("crashed")
  /\ UNCHANGED << now, stop_when_no_token, seen_urls, found_domains,
                  reported, exiting, submitted, lastRL, rlCount, fetchRL,
                  output,
                  poolObs >>

\* github_search returns data with items: the submit loop of the page.
SearchItems ==
  /\ pc = "search"
  /\ \E resp \in SearchResponses :
       LET r == github_search(resp) IN
         /\ r.err = "" /\ r.data.kind = "items"
         /\ LET s == SubmitLoop(r.data.items, seen_urls, <<>>) IN
              /\ seen_urls' = s.seen
              /\ futures' = [ k \in 1..Len(s.urls) |->
                                [url |-> s.urls[k], tok |-> tok,
                                 st |-> "queued"] ]
              /\ submitted' = [ u \in URLs |->
                                  submitted[u] + CountIn(s.urls, u) ]
  /\ pc' = "await"
  /\ err' = ""
  /\ UNCHANGED << tokens, idx, now, stop_when_no_token, qi, page, tok,
                  found_domains, reported, exiting, lastRL, rlCount,
                  fetchRL,
                  output, exit_code, poolObs >>

Running == { k \in 1..Len(futures) : futures[k].st = "running" }
Queued == { k \in 1..Len(futures) : futures[k].st = "queued" }

\* A worker of the executor takes the oldest queued fetch_code(html_url,
\* tok) call; there are at most MAX_FETCH_WORKERS workers.
FetchStart ==
  /\ pc = "await"
  /\ Queued # {}
  /\ Cardinality(Running) < MAX_FETCH_WORKERS
  /\ LET k == CHOOSE j \in Queued : \A l \in Queued : j <= l IN
       futures' = [futures EXCEPT ![k].st = "running"]
  /\ UNCHANGED << tokens, idx, now, stop_when_no_token, qi, page, pc, tok,
                  seen_urls, found_domains, reported, exiting, submitted,
                  lastRL, rlCount, err, fetchRL,
                  output, exit_code, poolObs >>

\* A running fetch completes and as_completed hands its result to the loop
\* of lines 298-310: a ratelimit error disables tok, any other error and an
\* empty text are skipped, the matches of a text are collected.
FetchResult ==
  /\ pc = "await"
  /\ \E k \in Running, resp \in FetchResponses :
       LET r == fetch_code(resp) IN
         /\ r.err = "ratelimit" => rlCount < MaxRateLimits
         /\ rlCount' = IF r.err = "ratelimit" THEN rlCount + 1 ELSE rlCount
         /\ futures' = [futures EXCEPT ![k].st = "handled"]
         /\ fetchRL' = IF r.err = "ratelimit"
                         THEN fetchRL \cup {futures[k].url} ELSE fetchRL
         /\ tokens' = IF r.err = "ratelimit"
                        THEN Disable(tokens, tok, now, RATE_LIMIT_COOLDOWN)
                        ELSE tokens
         /\ LET sc == IF r.err = ""
                        THEN ScanText(r.text, found_domains, reported)
                        ELSE [found |-> found_domains, rep |-> reported]
            IN found_domains' = sc.found /\ reported' = sc.rep
  /\ UNCHANGED << idx, now, stop_when_no_token, qi, page, pc, tok,
                  seen_urls, exiting, submitted, lastRL, err,
                  output, exit_code, poolObs >>

\* Every future of the page has been handled: page += 1, sleep(0.2).
PageAdvanceNotAwaited ==
  /\ pc = "await"
  /\ page' = page + 1
  /\ futures' = <<>>
  /\ pc' = "loop"
  /\ UNCHANGED << tokens, idx, now, stop_when_no_token, qi, tok, seen_urls,
                  found_domains, reported, exiting, submitted, lastRL,
                  rlCount, err, fetchRL, output, exit_code, poolObs >>

PageAdvance ==
  /\ pc = "await"
  /\ \A k \in 1..Len(futures) : futures[k].st = "handled"
  /\ page' = page + 1
  /\ futures' = <<>>
  /\ pc' = "loop"
  /\ UNCHANGED << tokens, idx, now, stop_when_no_token, qi, tok, seen_urls,
                  found_domains, reported, exiting, submitted, lastRL,
                  rlCount, err, fetchRL,
                  output, exit_code, poolObs >>

\* The output file is written (lines 315-321), one line per domain of
\* sorted(found_domains): main() returns, or exits with status 4 when open
\* or a write raises, with the lines written until then in the file.
Finalize ==
  /\ pc = "write"
  /\ LET lines == Sorted(found_domains) IN
       \E ok \in BOOLEAN, n \in 0..Len(lines) :
         /\ ok => n = Len(lines)
         /\ output' = SubSeq(lines, 1, n)
         /\ ProcessEnds(IF ok THEN "done" ELSE "exit4")
  /\ UNCHANGED << now, stop_when_no_token, seen_urls, found_domains,
                  reported, exiting, submitted, lastRL, rlCount, fetchRL,
                  poolObs >>

Next ==
  \/ Startup
  \/ Tick
  \/ PageLimit
  \/ AcquireToken
  \/ ExhaustedStop
  \/ ExhaustedWait
  \/ SearchRateLimited
  \/ SearchError
  \/ SearchNoItems
  \/ SearchBadData
  \/ SearchItems
  \/ FetchStart
  \/ FetchResult
  \/ PageAdvance
  \/ Finalize

Spec == Init /\ [][Next]_vars

\* main() is one thread that keeps running, the workers of the executor
\* keep running and every request returns (gh_request has a timeout): a
\* step that can be taken is taken.
SpecFair == Spec /\ WF_vars(Next)

\* ------------------------------------------------- the pool under any calls
\* The TokenPool of a run, called in any order by any caller.
InitPool ==
  /\ \E vals \in TokenLists(MaxPoolTokens) : tokens = TokenPoolInit(vals)
  /\ idx = 0
  /\ now = 0
  /\ stop_when_no_token = FALSE
  /\ qi = 1
  /\ page = 1
  /\ pc = "pool"
  /\ tok = None
  /\ output = <<>>
  /\ exit_code = -1
  /\ lastGet = NoGet
  /\ call = NoPureCall
  /\ batch = NoBatch
  /\ futures = <<>>
  /\ seen_urls = {}
  /\ found_domains = {}
  /\ reported = <<>>
  /\ exiting = FALSE
  /\ submitted = [ u \in URLs |-> 0 ]
  /\ lastRL = NoRL
  /\ rlCount = 0
  /\ err = ""
  /\ fetchRL = {}
  /\ ret = NoCall
  /\ cooling = [ v \in TokenValues |-> 0 ]
  /\ acq = <<>>

AllAvailable(toks, t) == \A i \in DOMAIN toks : toks[i].disabled_until <= t

LastN(s, n) == IF Len(s) <= n THEN s ELSE SubSeq(s, Len(s) - n + 1, Len(s))

\* pool.get()
PoolGet ==
  /\ LET g == Get(tokens, idx, now) IN
       /\ idx' = g.idx
       /\ ret' = [op |-> "get", value |-> g.value, entry |-> g.entry]
       /\ acq' = IF AllAvailable(tokens, now)
                   THEN LastN(Append(acq, g.entry), NTokens(tokens))
                   ELSE <<>>
       /\ lastGet' = [value |-> g.value, entry |-> g.entry]
  /\ UNCHANGED << tokens, now, cooling, call, batch, mainVars >>

\* pool.disable(v) for a token of the pool or an unknown one
PoolDisable ==
  /\ \E v \in { tokens[i].value : i \in DOMAIN tokens } \cup {Unknown} :
       /\ tokens' = Disable(tokens, v, now, RATE_LIMIT_COOLDOWN)
       /\ cooling' = IF v = Unknown THEN cooling
                     ELSE [cooling EXCEPT ![v] = now + RATE_LIMIT_COOLDOWN]
       /\ ret' = [op |-> "disable", value |-> v, entry |-> -1]
  /\ acq' = <<>>
  /\ UNCHANGED << idx, now, lastGet, call, batch, mainVars >>

\* pool.any_available()
PoolAnyAvailable ==
  /\ ret' = [op |-> "any_available",
             value |-> IF AnyAvailable(tokens, now) THEN "True" ELSE "False",
             entry |-> -1]
  /\ UNCHANGED << tokens, idx, now, cooling, acq, lastGet, call, batch,
                  mainVars >>

PoolTick ==
  /\ \E d \in PoolTickSteps : now + d <= MaxTime /\ now' = now + d
  /\ ret' = NoCall
  /\ UNCHANGED << tokens, idx, cooling, acq, lastGet, call, batch,
                  mainVars >>

NextPool == PoolGet \/ PoolDisable \/ PoolAnyAvailable \/ PoolTick

SpecPool == InitPool /\ [][NextPool]_vars

\* ---------------------------------------------- the executor of one page
\* The query/page loop of main() with the fetches of a page counted instead
\* of listed: a page submits any number of fetch_code calls up to MaxBatch,
\* the executor runs at most MAX_FETCH_WORKERS of them at a time, and the
\* with block is left when all have completed.  The pool always has a
\* token here.
fanFrame == << tokens, idx, now, stop_when_no_token, tok, err, futures,
               seen_urls, found_domains, reported, exiting, submitted,
               lastRL, rlCount, fetchRL, output, exit_code, ret, cooling,
               acq, lastGet, call >>

InitFan ==
  /\ tokens = TokenPoolInit(<<"tA">>)
  /\ idx = 0
  /\ now = 0
  /\ stop_when_no_token = FALSE
  /\ qi = 1
  /\ page = 1
  /\ pc = "loop"
  /\ tok = None
  /\ output = <<>>
  /\ exit_code = -1
  /\ lastGet = NoGet
  /\ call = NoPureCall
  /\ batch = NoBatch
  /\ futures = <<>>
  /\ seen_urls = {}
  /\ found_domains = {}
  /\ reported = <<>>
  /\ exiting = FALSE
  /\ submitted = [ u \in URLs |-> 0 ]
  /\ lastRL = NoRL
  /\ rlCount = 0
  /\ err = ""
  /\ fetchRL = {}
  /\ ret = NoCall
  /\ cooling = [ v \in TokenValues |-> 0 ]
  /\ acq = <<>>

\* while page <= SEARCH_MAX_PAGES is false: the page loop ends.
FanPageLimit ==
  /\ pc = "loop"
  /\ page > SEARCH_MAX_PAGES
  /\ NextQuery
  /\ UNCHANGED << batch, fanFrame >>

\* github_search(q, page, tok) sends the search request.
FanSearch ==
  /\ pc = "loop"
  /\ page <= SEARCH_MAX_PAGES
  /\ pc' = "search"
  /\ UNCHANGED << qi, page, batch, fanFrame >>

\* The search is rate-limited: continue with the same page.
FanSearchRetry ==
  /\ pc = "search"
  /\ pc' = "loop"
  /\ UNCHANGED << qi, page, batch, fanFrame >>

\* The search ends the query: an error other than ratelimit, or no items.
FanQueryEnds ==
  /\ pc = "search"
  /\ NextQuery
  /\ UNCHANGED << batch, fanFrame >>

\* The submit loop: n fetch_code calls are submitted to the executor.
FanSubmit ==
  /\ pc = "search"
  /\ \E n \in 0..MaxBatch :
       batch' = [q |-> qi, page |-> page, queued |-> n, running |-> 0,
                 handled |-> 0]
  /\ pc' = "await"
  /\ UNCHANGED << qi, page, fanFrame >>

\* A worker takes a queued call; there are at most MAX_FETCH_WORKERS.
FanStartNoCap ==
  /\ pc = "await"
  /\ batch.queued > 0
  /\ batch' = [batch EXCEPT !.queued = @ - 1, !.running = @ + 1]
  /\ UNCHANGED << qi, page, pc, fanFrame >>

FanStart ==
  /\ pc = "await"
  /\ batch.queued > 0
  /\ batch.running < MAX_FETCH_WORKERS
  /\ batch' = [batch EXCEPT !.queued = @ - 1, !.running = @ + 1]
  /\ UNCHANGED << qi, page, pc, fanFrame >>

\* A running call returns and as_completed yields its future.
FanComplete ==
  /\ pc = "await"
  /\ batch.running > 0
  /\ batch' = [batch EXCEPT !.running = @ - 1, !.handled = @ + 1]
  /\ UNCHANGED << qi, page, pc, fanFrame >>

\* as_completed is exhausted and the with block is left: page += 1.
FanAdvance ==
  /\ pc = "await"
  /\ batch.queued = 0
  /\ batch.running = 0
  /\ page' = page + 1
  /\ batch' = NoBatch
  /\ pc' = "loop"
  /\ UNCHANGED << qi, fanFrame >>

NextFan ==
  \/ FanPageLimit
  \/ FanSearch
  \/ FanSearchRetry
  \/ FanQueryEnds
  \/ FanSubmit
  \/ FanStart
  \/ FanComplete
  \/ FanAdvance

SpecFan == InitFan /\ [][NextFan]_vars

\* ------------------------------------------- the pure functions on any input
\* split_domain, github_search and fetch_code applied to any argument.
InitPure ==
  /\ tokens = <<>>
  /\ idx = 0
  /\ now = 0
  /\ stop_when_no_token = FALSE
  /\ qi = 1
  /\ page = 1
  /\ pc = "pure"
  /\ tok = None
  /\ output = <<>>
  /\ exit_code = -1
  /\ lastGet = NoGet
  /\ call = NoPureCall
  /\ batch = NoBatch
  /\ futures = <<>>
  /\ seen_urls = {}
  /\ found_domains = {}
  /\ reported = <<>>
  /\ exiting = FALSE
  /\ submitted = [ u \in URLs |-> 0 ]
  /\ lastRL = NoRL
  /\ rlCount = 0
  /\ err = ""
  /\ fetchRL = {}
  /\ ret = NoCall
  /\ cooling = [ v \in TokenValues |-> 0 ]
  /\ acq = <<>>

CallSplitDomain ==
  /\ \E d \in UserDomains :
       call' = [fn |-> "split_domain", arg |-> d, result |-> split_domain(d)]
  /\ UNCHANGED << tokens, idx, now, mainVars, ret, cooling, acq, lastGet,
                  batch >>

CallGithubSearch ==
  /\ \E resp \in AllSearchResponses :
       call' = [fn |-> "github_search", arg |-> resp,
                result |-> github_search(resp)]
  /\ UNCHANGED << tokens, idx, now, mainVars, ret, cooling, acq, lastGet,
                  batch >>

CallFetchCode ==
  /\ \E resp \in AllFetchResponses :
       call' = [fn |-> "fetch_code", arg |-> resp,
                result |-> fetch_code(resp)]
  /\ UNCHANGED << tokens, idx, now, mainVars, ret, cooling, acq, lastGet,
                  batch >>

NextPure == CallSplitDomain \/ CallGithubSearch \/ CallFetchCode

SpecPure == InitPure /\ [][NextPure]_vars

\* ------------------------------------------------------------------ claims
Terminal == {"done", "exit4", "crashed", "version", "notoken"}

SearchIssued == pc = "loop" /\ pc' = "search"
FetchesIssued == pc = "search" /\ pc' = "await"
SearchRateLimitedStep == pc = "search" /\ rlCount' = rlCount + 1
FetchRateLimitedStep == pc = "await" /\ rlCount' = rlCount + 1
SearchErrorStep ==
  pc = "search" /\ pc' # "search" /\ err' \in {"network", "http", "json"}

InCooldown(toks, v, t) ==
  \E i \in DOMAIN toks : toks[i].value = v /\ toks[i].disabled_until > t

\* C1: once the stop-on-exhaustion branch has been taken (an acquisition
\* found no credential and the flag is set), no search request and no
\* fetch request is issued any more, for this query or a later one.
C1_NoRequestAfterExhaustion ==
  [][exiting => ~(SearchIssued \/ FetchesIssued)]_vars

\* C2: a rate-limited search puts its credential in cooldown and leaves the
\* query and the page unchanged, and the next search request is for the
\* same query and page, with a credential other than the disabled one as
\* long as its cooldown lasts.
C2_RetrySamePageOtherCredential ==
  [][ /\ SearchRateLimitedStep =>
           /\ qi' = qi /\ page' = page
           /\ InCooldown(tokens', tok, now)
      /\ (lastRL # NoRL /\ SearchIssued) =>
           /\ qi' = lastRL.q /\ page' = lastRL.page
           /\ (tok' # lastRL.tok \/ now >= lastRL.until) ]_vars

C4_SearchErrorAbandonsOnlyTheQuery ==
  [][ /\ SearchErrorStep =>
           /\ tokens' = tokens /\ idx' = idx
           /\ futures' = <<>>
           /\ qi' = qi + 1
           /\ IF qi < NumQueries THEN pc' = "loop" /\ page' = 1
                                 ELSE pc' = "write"
      /\ (qi' # qi /\ pc' \notin Terminal) => qi' = qi + 1 ]_vars

C4_Witness ==
  /\ qi = 2
  /\ page = 1
  /\ pc = "search"
  /\ err \in {"network", "http", "json"}

\* C5: while the cooldown set by disable(c) lasts, get() does not return
\* the secret c and any_available() does not count c.
C5_DisabledSecretNotAcquired ==
  \A c \in TokenValues :
    now < cooling[c] =>
      /\ ret.op = "get" => ret.value # c
      /\ (ret.op = "any_available" /\ ret.value = "True") =>
           \E i \in DOMAIN tokens :
             /\ tokens[i].disabled_until <= now
             /\ now >= cooling[tokens[i].value]

\* C6: get() returns None exactly when no entry has disabled_until <= now,
\* and otherwise the value of an entry whose disabled_until <= now.
C6_GetReturnsAvailableOrNone ==
  ret.op = "get" =>
    IF \A i \in DOMAIN tokens : tokens[i].disabled_until > now
      THEN ret.value = None
      ELSE /\ ret.value # None
           /\ ret.entry \in DOMAIN tokens
           /\ tokens[ret.entry].value = ret.value
           /\ tokens[ret.entry].disabled_until <= now

C6_Witness ==
  /\ ret.op = "get"
  /\ ret.value # None
  /\ ret.entry # 0
  /\ tokens[0].disabled_until > now

\* C7: consecutive get() calls made with every entry available and no
\* disable in between never return an entry twice within a window of
\* pool-size calls, and a full window holds every entry of the pool.
C7_RoundRobinVisitsEachOnce ==
  /\ \A j, k \in 1..Len(acq) : j # k => acq[j] # acq[k]
  /\ Len(acq) = NTokens(tokens) => Range(acq) = DOMAIN tokens

C7_Witness ==
  /\ NTokens(tokens) >= 3
  /\ Len(acq) = NTokens(tokens)
  /\ acq[1] # 0

\* C8: a url is submitted for fetch at most once in the whole run, exactly
\* the urls of seen_urls have been submitted, a url already in seen_urls is
\* not submitted again, and seen_urls only grows.
C8_EachUrlSubmittedOnce ==
  [][ /\ \A u \in URLs :
           /\ submitted'[u] <= 1
           /\ submitted'[u] = 1 <=> u \in seen_urls'
      /\ seen_urls \subseteq seen_urls'
      /\ \A u \in seen_urls : submitted'[u] = submitted[u] ]_vars

\* A later query returned a page whose items with a url were all visited
\* before: nothing was submitted.
C8_Witness ==
  /\ qi = 2
  /\ pc = "await"
  /\ futures = <<>>
  /\ seen_urls = URLs
  /\ \A u \in URLs : submitted[u] = 1

\* C9: found_domains only grows, a domain is logged once, in the step that
\* inserts it, and no two entries differ only by letter case or by a
\* trailing dot.
C9_DomainsReportedOnce ==
  [][ /\ found_domains \subseteq found_domains'
      /\ DOMAIN reported' = found_domains'
      /\ \A d \in found_domains' : reported'[d] = 1
      /\ \A d1, d2 \in found_domains' :
           Lower(StripTrailingDots(d1)) = Lower(StripTrailingDots(d2))
             => d1 = d2 ]_vars

C9_Witness ==
  /\ pc = "await"
  /\ Len(futures) = 2
  /\ \A k \in 1..2 : futures[k].st = "handled"
  /\ Cardinality(found_domains) = 2
  /\ \A d \in found_domains : reported[d] = 1

\* C10: no outcome of a search or fetch call ends the process with an
\* uncaught exception.
C10_NoOutcomeEndsTheProcess == pc # "crashed"

\* C11: the step that finalizes a run either writes exactly found_domains,
\* each domain once and in ascending order, and the process ends with
\* status 0, or the write fails and the process exits with status 4; no
\* other way of ending the process gives status 4.
C11_OutputSortedExitDistinct ==
  [][ /\ (pc = "write" /\ pc' = "done") =>
           /\ Range(output') = found_domains
           /\ Len(output') = Cardinality(found_domains)
           /\ \A j \in 1..(Len(output') - 1) :
                StrLess(output'[j], output'[j + 1])
           /\ exit_code' = 0
      /\ (pc = "write" /\ pc' # "done") => (pc' = "exit4" /\ exit_code' = 4)
      /\ exit_code' = 4 => (pc = "write" \/ pc = "exit4") ]_vars

C11_Witness ==
  /\ pc = "done"
  /\ Len(output) = 2
  /\ output[1] = <<"a", ".", "b", ".", "c">>
  /\ output[2] = <<"b", ".", "c">>

RateLimitSignal(resp) == resp.status = 403 \/ resp.remaining = "0"

\* C12: github_search gives exactly one outcome for every response: the
\* network error when there is no response; otherwise the ratelimit error
\* when the status is 403 or the remaining-quota header is "0", whatever
\* the status; otherwise an http error when the status is not 200;
\* otherwise the parsed body with no error, or the json error when the
\* body does not parse.
C12_SearchClassification ==
  call.fn = "github_search" =>
    LET r == call.arg
        o == call.result
    IN /\ o.err \in {"", "network", "ratelimit", "http", "json"}
       /\ o.err = "network" <=> ~r.present
       /\ o.err = "ratelimit" <=> (r.present /\ RateLimitSignal(r))
       /\ o.err = "http" <=>
            (r.present /\ ~RateLimitSignal(r) /\ r.status # 200)
       /\ o.err = "json" <=>
            /\ r.present /\ ~RateLimitSignal(r) /\ r.status = 200
            /\ r.body.kind = "garbage"
       /\ o.err = "" => o.data = r.body
       /\ o.err # "" => o.data = NoData

C12_Witness ==
  /\ call.fn = "github_search"
  /\ call.arg.status = 200
  /\ call.arg.remaining = "0"
  /\ call.arg.body.kind = "items"
  /\ call.result.err = "ratelimit"

\* C13 as claimed: for a domain with fewer than two labels split_domain
\* returns an empty subdomain, an empty registrable name and the domain
\* itself as top-level label.
C13_SingleLabelTldIsDomain ==
  (call.fn = "split_domain"
     /\ \A i \in 1..Len(HostOf(call.arg)) : HostOf(call.arg)[i] # ".") =>
    /\ call.result.sub = <<>>
    /\ call.result.registrable = <<>>
    /\ call.result.tld = HostOf(call.arg)

\* C13 as amended: for a domain with fewer than two labels split_domain
\* returns an empty subdomain, the domain itself (trimmed, lowercased,
\* outer dots stripped) as registrable name and an empty top-level label.
C13_SingleLabelRegistrableIsDomain ==
  (call.fn = "split_domain"
     /\ \A i \in 1..Len(HostOf(call.arg)) : HostOf(call.arg)[i] # ".") =>
    /\ call.result.sub = <<>>
    /\ call.result.registrable = HostOf(call.arg)
    /\ call.result.tld = <<>>

C13_Witness ==
  /\ call.fn = "split_domain"
  /\ call.arg = <<" ", "B", "a", ".">>
  /\ call.result.registrable = <<"b", "a">>
  /\ call.result.tld = <<>>

\* C19: fetch_code gives exactly one outcome for every response: the
\* network error when there is no response or the status is 500 or more,
\* also when the remaining-quota header is "0"; otherwise the ratelimit
\* error when the status is 403 or that header is "0"; otherwise an http
\* error when the status is not 200; otherwise the body text.
C19_FetchClassification ==
  call.fn = "fetch_code" =>
    LET r == call.arg
        o == call.result
        net == ~r.present \/ r.status >= 500
    IN /\ o.err \in {"", "network", "ratelimit", "http"}
       /\ o.err = "network" <=> net
       /\ o.err = "ratelimit" <=> (~net /\ RateLimitSignal(r))
       /\ o.err = "http" <=> (~net /\ ~RateLimitSignal(r) /\ r.status # 200)
       /\ o.err = "" => o.text = r.text
       /\ o.err # "" => o.text = <<>>

C19_Witness ==
  /\ call.fn = "fetch_code"
  /\ call.arg.status = 500
  /\ call.arg.remaining = "0"
  /\ call.result.err = "network"

AvailableValues(toks, t) ==
  { toks[i].value :
      i \in { j \in DOMAIN toks : toks[j].disabled_until <= t } }

\* C14: in a pool of distinct credentials, a get() call made while at
\* least two credentials are available does not return the credential the
\* preceding get() call returned, whatever disable() calls and whatever
\* time lay between the two.
C14_GetNeverRepeats ==
  [][ ( /\ ret'.op = "get"
        /\ lastGet.value # None
        /\ \A i, j \in DOMAIN tokens :
             i # j => tokens[i].value # tokens[j].value
        /\ Cardinality(AvailableValues(tokens, now)) >= 2 )
      => ret'.value # lastGet.value ]_vars

\* C15: disable(c) sets disabled_until of one entry holding c to
\* now + cooldown and changes nothing else: not idx, not another entry,
\* not the entries and their values, and nothing at all when no entry
\* holds c.  No other call changes the token list.
C15_DisableChangesOneCooldown ==
  [][ /\ DOMAIN tokens' = DOMAIN tokens
      /\ \A i \in DOMAIN tokens : tokens'[i].value = tokens[i].value
      /\ ret'.op = "disable" =>
           LET c == ret'.value
               changed == { i \in DOMAIN tokens :
                             tokens'[i].disabled_until
                               # tokens[i].disabled_until }
           IN /\ idx' = idx
              /\ Cardinality(changed) <= 1
              /\ \A i \in changed : tokens[i].value = c
              /\ (\E i \in DOMAIN tokens : tokens[i].value = c) =>
                   \E i \in DOMAIN tokens :
                     /\ tokens[i].value = c
                     /\ tokens'[i].disabled_until
                          = now + RATE_LIMIT_COOLDOWN
              /\ (\A i \in DOMAIN tokens : tokens[i].value # c) =>
                   tokens' = tokens
      /\ ret'.op # "disable" => tokens' = tokens ]_vars

C15_Witness ==
  /\ ret.op = "disable"
  /\ ret.value = "tB"
  /\ NTokens(tokens) = 3
  /\ idx = 2
  /\ tokens[1].disabled_until = now + RATE_LIMIT_COOLDOWN
  /\ tokens[0].disabled_until <= now
  /\ tokens[2].disabled_until <= now

\* C16: at most MAX_FETCH_WORKERS fetches run at a time, a fetch that is
\* queued or running belongs to the page and query main() is at, and
\* neither page nor the query changes nor a search request is sent while a
\* fetch of the page is queued or running.
C16_BoundedFetchesAwaited ==
  [][ /\ batch'.running <= MAX_FETCH_WORKERS
      /\ batch'.queued + batch'.running > 0 =>
           (batch'.q = qi' /\ batch'.page = page' /\ pc' = "await")
      /\ ( \/ page' # page
           \/ qi' # qi
           \/ (pc # "search" /\ pc' = "search") ) =>
           batch.queued + batch.running = 0 ]_vars

C16_Witness ==
  /\ pc = "await"
  /\ batch.running = MAX_FETCH_WORKERS
  /\ batch.queued > 0
  /\ batch.handled > 0

FetchHandledStep ==
  /\ pc = "await"
  /\ Len(futures') = Len(futures)
  /\ \E k \in 1..Len(futures) : futures'[k].st # futures[k].st
                                  /\ futures'[k].st = "handled"

\* C17: every fetch of a page is called with the token of the page's
\* search, which stays the same while the page is awaited; a rate-limited
\* fetch changes the cooldown of that token only, any other fetch result
\* leaves the pool as it is; while the page is awaited the query stays and
\* the page only changes by one, once every fetch is handled; and a token
\* put in cooldown by a rate-limited fetch is not what the next
\* acquisition returns while the cooldown lasts.
C17_FetchFailuresKeepPagination ==
  [][ /\ pc' = "await" =>
           /\ \A k \in 1..Len(futures') : futures'[k].tok = tok'
           /\ pc = "await" => tok' = tok
      /\ (FetchHandledStep /\ rlCount' = rlCount) =>
           (tokens' = tokens /\ idx' = idx)
      /\ FetchRateLimitedStep =>
           /\ idx' = idx
           /\ InCooldown(tokens', tok, now)
           /\ \A i \in DOMAIN tokens :
                tokens'[i] # tokens[i] => tokens[i].value = tok
      /\ pc = "await" =>
           /\ qi' = qi
           /\ page' # page =>
                /\ page' = page + 1
                /\ pc' = "loop"
                /\ \A k \in 1..Len(futures) : futures[k].st = "handled"
      /\ (fetchRL # {} /\ SearchIssued) =>
           ~InCooldown(tokens, tok', now) ]_vars

\* C18: the first search of every query is for page 1 and no search is
\* sent for a page beyond SEARCH_MAX_PAGES; within a query the page only
\* changes by one, after a search without error whose fetches are all
\* handled; a rate-limited search, a wait for a token and a handled
\* fetch leave it unchanged; and a search without error and without
\* items ends the page loop of its query only: the next query starts at
\* page 1.
C18_PageCounter ==
  [][ /\ SearchIssued => page' \in 1..SEARCH_MAX_PAGES
      /\ (pc' = "loop" /\ (pc = "start" \/ qi' # qi)) => page' = 1
      /\ (qi' = qi /\ page' # page /\ pc' \notin Terminal) =>
           /\ page' = page + 1
           /\ pc = "await" /\ err = ""
           /\ \A k \in 1..Len(futures) : futures[k].st = "handled"
      /\ SearchRateLimitedStep => (page' = page /\ qi' = qi)
      /\ (pc = "loop" /\ pc' = "loop" /\ qi' = qi) => page' = page
      /\ FetchHandledStep => (page' = page /\ qi' = qi)
      /\ (pc = "search" /\ err' = "" /\ pc' \in {"loop", "write"}) =>
           /\ qi' = qi + 1
           /\ IF qi < NumQueries THEN pc' = "loop" /\ page' = 1
                                 ELSE pc' = "write" ]_vars

C18_Witness ==
  /\ qi = NumQueries
  /\ page = SEARCH_MAX_PAGES
  /\ pc = "search"
  /\ seen_urls = URLs

\* C20: with the rate-limited responses bounded (MaxRateLimits), every
\* run that got past the start-up reaches the write of the output,
\* whatever stop_when_no_token is.
C20_EveryRunFinalizes ==
  (pc = "loop") ~> (pc \in {"done", "exit4"})

==========================================================================
